---- MODULE Spec2Model ----
(***************************************************************************)
(* Model of steam-hosts-tools: update_steam_hosts.py (the updater) and     *)
(* verify_steam_hosts.py (the verifier).                                   *)
(*                                                                         *)
(* Text is modelled as a sequence of one-character strings, so that        *)
(* strip(), split(), splitlines(), startswith() and the substring test     *)
(* `in` are computed as Python computes them.  The managed domains and the *)
(* addresses are abbreviated to short character sequences.                 *)
(***************************************************************************)
EXTENDS Integers, Sequences, FiniteSets, TLC

\* ------------------------------------------------------------------ bounds
\* Longest hosts file the model starts from, in lines.
MaxLines == 2
\* Number of successive updater runs on the same hosts file.
MaxRuns == 2

\* ------------------------------------------------------- Python str helpers
\* Code points of the characters used, for the ordering `sorted` applies.
Ord == [c \in {"\t", "\n", " ", "#", ".", "1", "2", ":", "A", "a", "p", "s", "x"} |->
          CASE c = "\t" -> 9   [] c = "\n" -> 10  [] c = " " -> 32
            [] c = "#" -> 35   [] c = "." -> 46   [] c = "1" -> 49
            [] c = "2" -> 50   [] c = ":" -> 58   [] c = "A" -> 65
            [] c = "a" -> 97   [] c = "p" -> 112  [] c = "s" -> 115
            [] c = "x" -> 120]

Range(q) == {q[i] : i \in 1..Len(q)}

\* The whitespace characters (str.isspace)
Whitespace == {" ", "\t", "\n"}
IsSpace(c) == c \in Whitespace

\* str.strip()
Strip(s) ==
    LET keep == {i \in 1..Len(s) : ~IsSpace(s[i])}
        lo == CHOOSE i \in keep : \A j \in keep : i <= j
        hi == CHOOSE i \in keep : \A j \in keep : j <= i
    IN  IF keep = {} THEN <<>> ELSE SubSeq(s, lo, hi)

\* `sub in s`
Contains(sub, s) ==
    \E i \in 0..(Len(s) - Len(sub)) : SubSeq(s, i + 1, i + Len(sub)) = sub

\* s.startswith(p)
StartsWith(s, p) == Len(p) <= Len(s) /\ SubSeq(s, 1, Len(p)) = p

\* Pieces of s between occurrences of a separator character (empty pieces kept).
RECURSIVE Pieces(_, _)
Pieces(s, Seps) ==
    LET seps == {i \in 1..Len(s) : s[i] \in Seps}
        k == CHOOSE i \in seps : \A j \in seps : i <= j
    IN  IF seps = {} THEN <<s>>
        ELSE <<SubSeq(s, 1, k - 1)>> \o Pieces(SubSeq(s, k + 1, Len(s)), Seps)

\* str.splitlines(): a final line break opens no further line
SplitLines(text) ==
    LET ps == Pieces(text, {"\n"})
    IN  IF ps[Len(ps)] = <<>> THEN SubSeq(ps, 1, Len(ps) - 1) ELSE ps

\* str.split() without argument: runs of whitespace separate, no empty tokens
Split(s) == SelectSeq(Pieces(s, Whitespace), LAMBDA t : t /= <<>>)

\* "\n".join(ls)
RECURSIVE JoinLines(_)
JoinLines(ls) ==
    IF ls = <<>> THEN <<>>
    ELSE IF Len(ls) = 1 THEN ls[1]
    ELSE ls[1] \o <<"\n">> \o JoinLines(Tail(ls))

\* str.lower()
Lower(s) == [i \in 1..Len(s) |-> IF s[i] = "A" THEN "a" ELSE s[i]]

\* s < t in Python's string order (code points, a proper prefix first)
RECURSIVE StrLess(_, _)
StrLess(s, t) ==
    IF t = <<>> THEN FALSE
    ELSE IF s = <<>> THEN TRUE
    ELSE IF s[1] /= t[1] THEN Ord[s[1]] < Ord[t[1]]
    ELSE StrLess(Tail(s), Tail(t))

\* sorted(S) for a set of strings
RECURSIVE Sorted(_)
Sorted(S) ==
    IF S = {} THEN <<>>
    ELSE LET m == CHOOSE x \in S : \A y \in S \ {x} : StrLess(x, y)
         IN  <<m>> \o Sorted(S \ {m})

\* sorted(set(ips))
SortedSet(ips) == Sorted(Range(ips))

\* ------------------------------------------------------------ program data
\* The managed domains, abbreviated: "p" api.steampowered.com,
\* "s" steamcommunity.com (the list has seven; the code treats all alike).
STEAM_DOMAINS == << <<"p">>, <<"s">> >>

NDomains == Len(STEAM_DOMAINS)

\* Addresses as the tools print them: two IPv4, one IPv6, one IPv4-mapped IPv6
\* (::ffff:a.b.c.d is printed with dots).
IP1 == <<"1", ".", "1">>
IP2 == <<"2", ".", "2">>
IP6 == <<"2", ":", ":", "1">>
MAPPED == <<":", ":", "1", ".", "1">>

\* header and footer marker lines; ts is the run's timestamp
Header(ts) == <<"#", "H", " ">> \o ts
Footer == <<"#", "E">>

\* dt.datetime.now().strftime(...): successive runs get successive stamps
Stamp(n) == <<(<<"1", "2", "3", "4", "5">>)[n]>>

\* f"{ip}\t{domain}"
Entry(ip, domain) == ip \o <<"\t">> \o domain

\* ---------------------------------------------------------------- inputs
\* Lines a hosts file may hold before the first run.
HostsLines ==
    { <<>>,                                    \* blank
      <<" ">>,                                 \* whitespace only
      <<"#", " ", "s">>,                       \* comment naming a domain
      <<" ", "#", "1", " ", "s">>,             \* indented comment, entry-shaped
      IP1 \o <<" ", "x">>,                     \* unmanaged entry
      IP1 \o <<" ", "s">>,                     \* managed, space separated
      IP1 \o <<"\t", "s">>,                    \* managed, tab separated
      IP2 \o <<" ", "x", " ", "p">>,           \* managed domain as an alias
      IP1 \o <<" ", "s", "x">>,                \* token that starts with a domain
      IP1 \o <<" ", "x", "s">> }               \* token that ends with a domain

\* Fewer lines, for the runs that vary other things.
FewLines == { <<"#", " ", "s">>, IP1 \o <<" ", "x">>, IP2 \o <<" ", "s">> }

RECURSIVE SeqsUpTo(_, _)
SeqsUpTo(S, n) ==
    IF n = 0 THEN {<<>>}
    ELSE LET shorter == SeqsUpTo(S, n - 1)
         IN  shorter \cup {Append(q, x) : q \in shorter, x \in S}

\* A file of the given lines, each ended by a line break.
RECURSIVE FileText(_)
FileText(ls) == IF ls = <<>> THEN <<>> ELSE ls[1] \o <<"\n">> \o FileText(Tail(ls))

NoFile == [exists |-> FALSE, text |-> <<>>]
File(text) == [exists |-> TRUE, text |-> text]

\* Hosts files over a set of lines, and the missing file.
HostsFiles(L) == {NoFile} \cup {File(FileText(ls)) : ls \in SeqsUpTo(L, MaxLines)}

\* One run of an external tool: the tool is missing, the call raises
\* (timeout, non-zero exit), or it prints text.
Missing == [kind |-> "missing", out |-> <<>>]
Raises == [kind |-> "error", out |-> <<>>]
Prints(text) == [kind |-> "ok", out |-> text]

DigRuns ==
    { Missing, Raises, Prints(<<>>),
      Prints(IP1 \o <<"\n">>),
      Prints(IP2 \o <<"\n", " ">> \o IP1 \o <<"\n", "\n">> \o IP2 \o <<"\n">>),
      Prints(IP6 \o <<"\n">>) }

NslookupRuns ==
    { Missing, Raises, Prints(<<"x", "\n">>),
      Prints(<<"A", ":", " ">> \o IP2 \o <<"\n", "a", ":">> \o IP2 \o <<"\n">>),
      Prints(<<"A", ":", " ">> \o IP6 \o <<"\n">>),
      Prints(<<"A", ":", "\n">>) }

GetentRuns ==
    { Raises, Prints(<<>>),
      Prints(IP1 \o <<" ", "x", "\n">> \o IP1 \o <<" ", "x", "\n">>),
      Prints(IP6 \o <<" ", "x", "\n">> \o IP2 \o <<" ", "x", "\n">>),
      Prints(MAPPED \o <<" ", "x", "\n">>) }

\* The plain case: a tool fails or prints one address.
PlainRuns == { Raises, Prints(IP1 \o <<"\n">>) }
PlainGetent == { Raises, Prints(IP2 \o <<" ", "x", "\n">>) }

DnsLists == { <<>>, <<"8.8.8.8">>, <<"8.8.8.8", "1.1.1.1">> }
DefaultDns == { <<"8.8.8.8", "1.1.1.1">> }

\* ----------------------------------------------------- resolver functions
\* resolve_with_dig, given what running dig did
resolve_with_dig(r) ==
    IF r.kind /= "ok" THEN <<>>
    ELSE LET good == SelectSeq(SplitLines(r.out),
                        LAMBDA l : Strip(l) /= <<>> /\ ":" \notin Range(l))
         IN  [i \in 1..Len(good) |-> Strip(good[i])]

\* line.split(":", 1)[1] for a line holding a colon
AfterColon(l) ==
    LET k == CHOOSE i \in 1..Len(l) : l[i] = ":" /\ \A j \in 1..(i - 1) : l[j] /= ":"
    IN  SubSeq(l, k + 1, Len(l))

\* resolve_with_nslookup, given what running nslookup did
resolve_with_nslookup(r) ==
    IF r.kind /= "ok" THEN <<>>
    ELSE LET ls == SplitLines(r.out)
             stripped == [i \in 1..Len(ls) |-> Strip(ls[i])]
             labelled == SelectSeq(stripped, LAMBDA l : StartsWith(Lower(l), <<"a", ":">>))
             cands == [i \in 1..Len(labelled) |-> Strip(AfterColon(labelled[i]))]
         IN  SelectSeq(cands, LAMBDA ip : ip /= <<>> /\ ":" \notin Range(ip))

\* resolve_system, given what running getent did
resolve_system(r) ==
    IF r.kind /= "ok" THEN <<>>
    ELSE LET parts == [i \in 1..Len(SplitLines(r.out)) |-> Split(SplitLines(r.out)[i])]
             good == SelectSeq(parts, LAMBDA ps : ps /= <<>> /\ "." \in Range(ps[1]))
         IN  SortedSet([i \in 1..Len(good) |-> good[i][1]])

\* ----------------------------------------------------------- filter test
\* is_steam: any(f" {d}" in f" {stripped} " for d in STEAM_DOMAINS)
is_steam(stripped) ==
    \E k \in 1..NDomains :
        Contains(<<" ">> \o STEAM_DOMAINS[k], <<" ">> \o stripped \o <<" ">>)

\* ------------------------------------------------------------------ state
VARIABLES
    hosts,        \* the hosts file: [exists, text]
    backups,      \* the backup files written so far: <<[ts, text]>>
    run,          \* number of the updater run in progress
    pc,           \* position of the updater in main()
    dry_run,      \* args.dry_run
    dns_servers,  \* the --dns list
    lines,        \* content.splitlines()
    li,           \* index of the line the filter loop is at
    filtered,     \* filtered
    removed,      \* removed
    di,           \* index of the domain the resolve loop is at
    si,           \* resolve_domain: index of the DNS server
    stage,        \* resolve_domain: "idle", "dig", "nslookup" or "system"
    ips,          \* value the last resolve_domain call returned
    trace,        \* resolve_domain: the attempts of the current call, in order
    new_entries,  \* new_entries
    warnings,     \* domains a [WARN] line was printed for, in order
    exit,         \* exit status of the run, -1 while running
    pre,          \* the hosts file as it was when the run started
    writes,       \* number of writes to the hosts file in this run
    backed,       \* number of backups made in this run
    failed,       \* domains of this run whose every strategy yielded nothing
    last_written, \* entry lines written by the most recent run that wrote
    vpc,          \* position of the verifier in main()
    hosts_map,    \* verifier: parse_hosts result
    vdi,          \* verifier: index of the domain checked next
    ok,           \* verifier: ok
    resolved,     \* verifier: the addresses getaddrinfo gave, per domain index
    vexit         \* verifier exit status, -1 while running

updVars == <<run, pc, dry_run, dns_servers, lines, li, filtered, removed, di, si,
             stage, ips, trace, new_entries, warnings, exit, pre, writes, backed,
             failed, last_written, backups>>
verVars == <<vpc, hosts_map, vdi, ok, resolved, vexit>>
vars == <<hosts, updVars, verVars>>

\* ---------------------------------------------------------------- updater
runLocals == <<lines, li, filtered, removed, di, si, stage, ips, trace, new_entries,
               warnings, failed>>
resolveLocals == <<di, si, stage, ips, trace, new_entries, warnings, failed>>
filterLocals == <<lines, li, filtered, removed>>
ghosts == <<pre, writes, backed, last_written>>

\* final_lines = filtered + [header] + new_entries + [footer]
final_lines == filtered \o <<Header(Stamp(run))>> \o new_entries \o <<Footer>>

\* main, lines 103-105: the existence check
Start ==
    /\ pc = "start"
    /\ IF hosts.exists
         THEN pc' = "backup" /\ exit' = exit
         ELSE pc' = "done" /\ exit' = 1
    /\ UNCHANGED <<hosts, backups, run, dry_run, dns_servers, runLocals, ghosts, verVars>>

\* Faulty variant of Backup: the copy is skipped.
BackupSkipped ==
    /\ pc = "backup"
    /\ pc' = "read"
    /\ UNCHANGED <<hosts, backups, run, dry_run, dns_servers, runLocals, exit, ghosts,
                   verVars>>

\* main, lines 107-111: copy the hosts file into the backup directory
Backup ==
    /\ pc = "backup"
    /\ backups' = Append(backups, [ts |-> Stamp(run), text |-> hosts.text])
    /\ backed' = backed + 1
    /\ pc' = "read"
    /\ UNCHANGED <<hosts, run, dry_run, dns_servers, runLocals, exit, pre, writes,
                   last_written, verVars>>

\* main, lines 113-116: read the file and split it into lines
ReadHosts ==
    /\ pc = "read"
    /\ lines' = SplitLines(hosts.text)
    /\ filtered' = <<>>
    /\ removed' = 0
    /\ li' = 1
    /\ pc' = "filter"
    /\ UNCHANGED <<hosts, backups, run, dry_run, dns_servers, resolveLocals, exit,
                   ghosts, verVars>>

\* Faulty variant of FilterLine: the domain test comes before the comment test.
FilterLineDomainFirst ==
    /\ pc = "filter"
    /\ li <= Len(lines)
    /\ LET line == lines[li]
           stripped == Strip(line)
       IN  IF is_steam(stripped)
             THEN filtered' = filtered /\ removed' = removed + 1
             ELSE filtered' = Append(filtered, line) /\ removed' = removed
    /\ li' = li + 1
    /\ UNCHANGED <<hosts, backups, run, pc, dry_run, dns_servers, lines, resolveLocals,
                   exit, ghosts, verVars>>

\* main, lines 117-126: one iteration of the filter loop
FilterLine ==
    /\ pc = "filter"
    /\ li <= Len(lines)
    /\ LET line == lines[li]
           stripped == Strip(line)
       IN  IF stripped = <<>> \/ StartsWith(stripped, <<"#">>)
             THEN filtered' = Append(filtered, line) /\ removed' = removed
           ELSE IF is_steam(stripped)
             THEN filtered' = filtered /\ removed' = removed + 1
           ELSE filtered' = Append(filtered, line) /\ removed' = removed
    /\ li' = li + 1
    /\ UNCHANGED <<hosts, backups, run, pc, dry_run, dns_servers, lines, resolveLocals,
                   exit, ghosts, verVars>>

\* main, lines 127-129: the filter loop is over, the resolve loop starts
FilterDone ==
    /\ pc = "filter"
    /\ li > Len(lines)
    /\ new_entries' = <<>>
    /\ di' = 1
    /\ stage' = "idle"
    /\ pc' = "resolve"
    /\ UNCHANGED <<hosts, backups, run, dry_run, dns_servers, filterLocals, si, ips,
                   trace, warnings, failed, exit, ghosts, verVars>>

\* main, lines 130-131 and resolve_domain, line 75: call resolve_domain for
\* the next domain
CallResolve ==
    /\ pc = "resolve"
    /\ stage = "idle"
    /\ di <= NDomains
    /\ trace' = <<>>
    /\ si' = 1
    /\ stage' = IF dns_servers = <<>> THEN "system" ELSE "dig"
    /\ UNCHANGED <<hosts, backups, run, pc, dry_run, dns_servers, filterLocals, di, ips,
                   new_entries, warnings, failed, exit, ghosts, verVars>>

Attempt(tool, server, r, got) == [tool |-> tool, server |-> server, kind |-> r.kind, n |-> Len(got)]

\* Faulty variant of Return: a domain without addresses gets an entry, and no warning.
ReturnWritesEmpty(result, tr) ==
    /\ ips' = result
    /\ trace' = tr
    /\ warnings' = warnings
    /\ new_entries' = new_entries \o
           (IF result = <<>> THEN <<Entry(<<>>, STEAM_DOMAINS[di])>>
            ELSE [i \in 1..Len(result) |-> Entry(result[i], STEAM_DOMAINS[di])])
    /\ failed' = IF \A i \in 1..Len(tr) : tr[i].n = 0 THEN failed \cup {di} ELSE failed
    /\ di' = di + 1
    /\ stage' = "idle"
    /\ si' = si

\* resolve_domain returns result to main, lines 132-136: warn, or add one
\* entry per address; tr is the finished trace of the call
Return(result, tr) ==
    /\ ips' = result
    /\ trace' = tr
    /\ IF result = <<>>
         THEN /\ warnings' = Append(warnings, STEAM_DOMAINS[di])
              /\ new_entries' = new_entries
         ELSE /\ warnings' = warnings
              /\ new_entries' = new_entries \o
                     [i \in 1..Len(result) |-> Entry(result[i], STEAM_DOMAINS[di])]
    /\ failed' = IF \A i \in 1..Len(tr) : tr[i].n = 0 THEN failed \cup {di} ELSE failed
    /\ di' = di + 1
    /\ stage' = "idle"
    /\ si' = si

\* Faulty variant of Dig: nslookup is asked even when dig gave addresses.
DigThenAlwaysNslookup(Runs) ==
    /\ pc = "resolve"
    /\ stage = "dig"
    /\ \E r \in Runs :
         /\ trace' = Append(trace, Attempt("dig", si, r, resolve_with_dig(r)))
         /\ stage' = "nslookup"
         /\ UNCHANGED <<di, si, ips, new_entries, warnings, failed>>
    /\ UNCHANGED <<hosts, backups, run, pc, dry_run, dns_servers, filterLocals, exit,
                   ghosts, verVars>>

\* resolve_domain, lines 76-80: dig against the current server
Dig(Runs) ==
    /\ pc = "resolve"
    /\ stage = "dig"
    /\ \E r \in Runs :
         LET got == resolve_with_dig(r)
             tr == Append(trace, Attempt("dig", si, r, got))
         IN  IF got /= <<>>
               THEN Return(SortedSet(got), tr)
               ELSE /\ trace' = tr
                    /\ stage' = "nslookup"
                    /\ UNCHANGED <<di, si, ips, new_entries, warnings, failed>>
    /\ UNCHANGED <<hosts, backups, run, pc, dry_run, dns_servers, filterLocals, exit,
                   ghosts, verVars>>

\* resolve_domain, lines 77-80: nslookup against the same server, then the
\* next server or the fallback
Nslookup(Runs) ==
    /\ pc = "resolve"
    /\ stage = "nslookup"
    /\ \E r \in Runs :
         LET got == resolve_with_nslookup(r)
             tr == Append(trace, Attempt("nslookup", si, r, got))
         IN  IF got /= <<>>
               THEN Return(SortedSet(got), tr)
               ELSE /\ trace' = tr
                    /\ IF si < Len(dns_servers)
                         THEN si' = si + 1 /\ stage' = "dig"
                         ELSE si' = si /\ stage' = "system"
                    /\ UNCHANGED <<di, ips, new_entries, warnings, failed>>
    /\ UNCHANGED <<hosts, backups, run, pc, dry_run, dns_servers, filterLocals, exit,
                   ghosts, verVars>>

\* resolve_domain, lines 81-83: the system resolver
System(Runs) ==
    /\ pc = "resolve"
    /\ stage = "system"
    /\ \E r \in Runs :
         LET got == resolve_system(r)
         IN  Return(SortedSet(got), Append(trace, Attempt("system", 0, r, got)))
    /\ UNCHANGED <<hosts, backups, run, pc, dry_run, dns_servers, filterLocals, exit,
                   ghosts, verVars>>

\* Faulty variant of DryRunExit: the preview writes the file all the same.
DryRunWrites ==
    /\ pc = "resolve"
    /\ stage = "idle"
    /\ di > NDomains
    /\ dry_run
    /\ hosts' = File(JoinLines(final_lines) \o <<"\n">>)
    /\ exit' = 0
    /\ pc' = "done"
    /\ UNCHANGED <<backups, run, dry_run, dns_servers, runLocals, ghosts, verVars>>

\* main, lines 138-146: preview mode prints the entries and exits
DryRunExit ==
    /\ pc = "resolve"
    /\ stage = "idle"
    /\ di > NDomains
    /\ dry_run
    /\ exit' = 0
    /\ pc' = "done"
    /\ UNCHANGED <<hosts, backups, run, dry_run, dns_servers, runLocals, ghosts, verVars>>

\* main, lines 138-150: write the assembled lines
Write ==
    /\ pc = "resolve"
    /\ stage = "idle"
    /\ di > NDomains
    /\ ~dry_run
    /\ hosts' = File(JoinLines(final_lines) \o <<"\n">>)
    /\ writes' = writes + 1
    /\ last_written' = new_entries
    /\ exit' = 0
    /\ pc' = "done"
    /\ UNCHANGED <<backups, run, dry_run, dns_servers, runLocals, pre, backed, verVars>>

\* the process is killed part-way
Crash ==
    /\ pc \notin {"done", "crashed"}
    /\ pc' = "crashed"
    /\ UNCHANGED <<hosts, backups, run, dry_run, dns_servers, runLocals, exit, ghosts,
                   verVars>>

\* the updater is started again on the file the last run left
NewRun ==
    /\ pc \in {"done", "crashed"}
    /\ run < MaxRuns
    /\ run' = run + 1
    /\ dry_run' \in BOOLEAN
    /\ pc' = "start"
    /\ exit' = -1
    /\ lines' = <<>> /\ li' = 1 /\ filtered' = <<>> /\ removed' = 0
    /\ di' = 1 /\ si' = 1 /\ stage' = "idle" /\ ips' = <<>> /\ trace' = <<>>
    /\ new_entries' = <<>> /\ warnings' = <<>> /\ failed' = {}
    /\ pre' = hosts /\ writes' = 0 /\ backed' = 0
    /\ UNCHANGED <<hosts, backups, dns_servers, last_written, verVars>>

VerifierOff ==
    /\ vpc = "off" /\ hosts_map = <<>> /\ vdi = 1 /\ ok = TRUE
    /\ resolved = <<>> /\ vexit = -1

InitUpdater(files, dnsLists) ==
    /\ hosts \in files
    /\ dry_run \in BOOLEAN
    /\ dns_servers \in dnsLists
    /\ backups = <<>>
    /\ run = 1
    /\ pc = "start"
    /\ exit = -1
    /\ lines = <<>> /\ li = 1 /\ filtered = <<>> /\ removed = 0
    /\ di = 1 /\ si = 1 /\ stage = "idle" /\ ips = <<>> /\ trace = <<>>
    /\ new_entries = <<>> /\ warnings = <<>> /\ failed = {}
    /\ pre = hosts /\ writes = 0 /\ backed = 0 /\ last_written = <<>>
    /\ VerifierOff

\* Successive runs, with crashes, on a few files.
Init == InitUpdater(HostsFiles(FewLines), DefaultDns)
Next ==
    \/ Start \/ Backup \/ ReadHosts \/ FilterLine \/ FilterDone \/ CallResolve
    \/ Dig(PlainRuns) \/ Nslookup(PlainRuns) \/ System(PlainGetent)
    \/ DryRunExit \/ Write \/ Crash \/ NewRun
Spec == Init /\ [][Next]_vars

\* One run over every hosts file.
InitFilter == InitUpdater(HostsFiles(HostsLines), DefaultDns)
NextFilter ==
    \/ Start \/ Backup \/ ReadHosts \/ FilterLine \/ FilterDone \/ CallResolve
    \/ Dig(PlainRuns) \/ Nslookup(PlainRuns) \/ System(PlainGetent)
    \/ DryRunExit \/ Write
SpecFilter == InitFilter /\ [][NextFilter]_vars

\* One run over every output of the tools and every server list.
InitResolve == InitUpdater(HostsFiles({IP1 \o <<" ", "s">>}), DnsLists)
NextResolve ==
    \/ Start \/ Backup \/ ReadHosts \/ FilterLine \/ FilterDone \/ CallResolve
    \/ Dig(DigRuns) \/ Nslookup(NslookupRuns) \/ System(GetentRuns)
    \/ DryRunExit \/ Write
SpecResolve == InitResolve /\ [][NextResolve]_vars

\* --------------------------------------------------------------- verifier
\* mapping[domain] = ip
Put(m, k, v) == [x \in DOMAIN m \cup {k} |-> IF x = k THEN v ELSE m[x]]

\* Faulty variant of PutAll: an address already mapped is kept.
RECURSIVE PutAllKeepFirst(_, _, _)
PutAllKeepFirst(m, names, ip) ==
    IF names = <<>> THEN m
    ELSE IF Head(names) \in DOMAIN m THEN PutAllKeepFirst(m, Tail(names), ip)
    ELSE PutAllKeepFirst(Put(m, Head(names), ip), Tail(names), ip)

\* parse_hosts, lines 37-38: every token after the first maps to the first
RECURSIVE PutAll(_, _, _)
PutAll(m, names, ip) ==
    IF names = <<>> THEN m ELSE PutAll(Put(m, Head(names), ip), Tail(names), ip)

\* parse_hosts, lines 29-38, over the lines still to read
RECURSIVE ParseLines(_, _)
ParseLines(m, ls) ==
    IF ls = <<>> THEN m
    ELSE LET stripped == Strip(Head(ls))
             parts == Split(stripped)
         IN  IF stripped = <<>> \/ StartsWith(stripped, <<"#">>) \/ Len(parts) < 2
               THEN ParseLines(m, Tail(ls))
               ELSE ParseLines(PutAll(m, Tail(parts), parts[1]), Tail(ls))

\* parse_hosts
parse_hosts(text) == ParseLines(<<>>, SplitLines(text))

\* What socket.getaddrinfo did: it raised, or returned these addresses.
AddrInfoRuns ==
    { [kind |-> "error", addrs |-> <<>>],
      [kind |-> "ok", addrs |-> <<IP1>>],
      [kind |-> "ok", addrs |-> <<IP2, IP6, IP1, IP2>>],
      [kind |-> "ok", addrs |-> <<IP6>>] }

\* system_resolve of the verifier
system_resolve(g) ==
    IF g.kind /= "ok" THEN <<>>
    ELSE SortedSet(SelectSeq(g.addrs, LAMBDA ip : ":" \notin Range(ip)))

\* main, lines 63-69: the existence check and the parse
VStart ==
    /\ vpc = "start"
    /\ IF hosts.exists
         THEN /\ hosts_map' = parse_hosts(hosts.text)
              /\ ok' = TRUE
              /\ vpc' = "check"
              /\ vexit' = vexit
         ELSE /\ vexit' = 1
              /\ vpc' = "done"
              /\ UNCHANGED <<hosts_map, ok>>
    /\ UNCHANGED <<hosts, updVars, vdi, resolved>>

\* main, lines 70-81: one iteration of the loop over the domains
VCheck ==
    /\ vpc = "check"
    /\ vdi <= NDomains
    /\ \E g \in AddrInfoRuns :
         LET domain == STEAM_DOMAINS[vdi]
             resolved_ips == system_resolve(g)
         IN  /\ resolved' = Append(resolved, g.addrs)
             /\ IF domain \notin DOMAIN hosts_map
                  THEN ok' = FALSE
                ELSE IF hosts_map[domain] \in Range(resolved_ips)
                  THEN ok' = ok
                ELSE ok' = FALSE
    /\ vdi' = vdi + 1
    /\ UNCHANGED <<hosts, updVars, vpc, hosts_map, vexit>>

\* main, line 83
VDone ==
    /\ vpc = "check"
    /\ vdi > NDomains
    /\ vexit' = IF ok THEN 0 ELSE 2
    /\ vpc' = "done"
    /\ UNCHANGED <<hosts, updVars, hosts_map, vdi, ok, resolved>>

\* Lines for the verifier's hosts file.
VerifyLines ==
    { <<"#", " ", "1", " ", "s">>,
      IP1 \o <<" ", "s">>,
      IP2 \o <<"\t", "s">>,
      IP1 \o <<" ", "p", " ", "s">>,
      IP6 \o <<" ", "p">>,
      <<" ">> \o IP2 \o <<" ", "p">>,
      <<"s">>,
      <<"s", " ">> \o IP1 }

InitVerify ==
    /\ hosts \in HostsFiles(VerifyLines)
    /\ vpc = "start" /\ hosts_map = <<>> /\ vdi = 1 /\ ok = TRUE
    /\ resolved = <<>> /\ vexit = -1
    /\ dry_run = FALSE
    /\ dns_servers = <<>>
    /\ backups = <<>>
    /\ run = 1
    /\ pc = "off"
    /\ exit = -1
    /\ lines = <<>> /\ li = 1 /\ filtered = <<>> /\ removed = 0
    /\ di = 1 /\ si = 1 /\ stage = "idle" /\ ips = <<>> /\ trace = <<>>
    /\ new_entries = <<>> /\ warnings = <<>> /\ failed = {}
    /\ pre = hosts /\ writes = 0 /\ backed = 0 /\ last_written = <<>>
NextVerify == VStart \/ VCheck \/ VDone
SpecVerify == InitVerify /\ [][NextVerify]_vars

\* ------------------------------------------------------------ vocabulary
\* Indices of the characters of a line that are not whitespace.
Inked(line) == {i \in 1..Len(line) : line[i] \notin Whitespace}

\* A comment line (first non-blank character '#') or a blank line.
IsCommentOrBlank(line) ==
    \/ Inked(line) = {}
    \/ \E i \in Inked(line) : line[i] = "#" /\ \A j \in Inked(line) : i <= j

\* d is a whitespace-delimited token of line, starting at position i.
TokenAt(line, d, i) ==
    /\ i >= 1 /\ i + Len(d) - 1 <= Len(line)
    /\ SubSeq(line, i, i + Len(d) - 1) = d
    /\ (i = 1 \/ line[i - 1] \in Whitespace)
    /\ (i + Len(d) - 1 = Len(line) \/ line[i + Len(d)] \in Whitespace)

HasToken(line, d) == \E i \in 1..Len(line) : TokenAt(line, d, i)

\* An entry line with a managed domain among its tokens.
IsManagedEntry(line) ==
    ~IsCommentOrBlank(line) /\ \E k \in 1..NDomains : HasToken(line, STEAM_DOMAINS[k])

\* An entry line none of whose tokens is a managed domain.
IsUnmanagedEntry(line) ==
    ~IsCommentOrBlank(line) /\ \A k \in 1..NDomains : ~HasToken(line, STEAM_DOMAINS[k])

Count(q, Test(_)) == Len(SelectSeq(q, Test))

\* The filter loop of the current run is over.
FilterOver == pre.exists /\ (pc = "resolve" \/ (pc = "done" /\ exit = 0))

\* Lines of the hosts file now.
FileLines == SplitLines(hosts.text)

\* Position of this run's header marker in the written file (0: none).
HeaderAt ==
    LET at == {i \in 1..Len(FileLines) : FileLines[i] = Header(Stamp(run))}
    IN  IF at = {} THEN 0 ELSE CHOOSE i \in at : \A j \in at : j <= i

\* What the written file holds ahead of the header, and between the markers.
AheadOfHeader == SubSeq(FileLines, 1, HeaderAt - 1)
ManagedBlock == SubSeq(FileLines, HeaderAt + 1, Len(FileLines) - 1)

\* Domain and address of a generated entry line (address, tab, domain).
TabAt(e) == CHOOSE i \in 1..Len(e) : e[i] = "\t" /\ \A j \in 1..(i - 1) : e[j] /= "\t"
EntryAddress(e) == SubSeq(e, 1, TabAt(e) - 1)
EntryDomain(e) == SubSeq(e, TabAt(e) + 1, Len(e))

\* ----------------------------------------------------------------- claims

\* C1: every non-comment, non-blank line with a managed domain among its
\* whitespace-delimited tokens (spaces or tabs) is removed by the filter: it
\* is counted in removed, is absent from filtered and from what is written
\* ahead of the managed block.
C1_ManagedLinesRemoved ==
    FilterOver =>
        /\ \A i \in 1..Len(lines) : IsManagedEntry(lines[i]) => lines[i] \notin Range(filtered)
        /\ removed >= Count(lines, IsManagedEntry)
        /\ writes = 1 => \A i \in 1..Len(AheadOfHeader) : ~IsManagedEntry(AheadOfHeader[i])

\* C2: on its own output the updater never accumulates managed entries: the
\* filter of a run removes every entry line the previous writing run wrote,
\* and after a later write the managed entry lines of the file are exactly
\* those of the most recent run.
C2_NoAccumulation ==
    /\ (run >= 2 /\ pc = "resolve" /\ pre.exists) =>
           \A i \in 1..Len(last_written) : last_written[i] \notin Range(filtered)
    /\ (run >= 2 /\ pc = "done" /\ writes = 1) =>
           SelectSeq(FileLines, IsManagedEntry) = new_entries

\* C3: a run writes the hosts file at most once, exactly once when it is a
\* completed non-preview run on an existing file; a write comes only after
\* this run's backup of the pre-run content; while nothing is written the
\* file holds its pre-run content.
C3_WriteOnceAfterBackup ==
    /\ writes <= 1
    /\ (pc = "done" /\ ~dry_run /\ pre.exists) => writes = 1
    /\ writes = 1 =>
           /\ backed = 1
           /\ backups /= <<>>
           /\ backups[Len(backups)] = [ts |-> Stamp(run), text |-> pre.text]
    /\ writes = 0 => hosts = pre

\* C3 witness: a completed run that changed the file, its backup in place.
C3_Witness ==
    /\ pc = "done" /\ writes = 1 /\ hosts /= pre
    /\ backups[Len(backups)].text = pre.text

\* C4: a preview run on an existing file leaves the file as it was and
\* exits 0.
C4_PreviewLeavesFile ==
    (dry_run /\ pre.exists) =>
        /\ hosts = pre
        /\ exit \in {-1, 0}
        /\ pc = "done" => exit = 0

\* C4 witness: a finished preview that had lines to remove and entries to add.
C4_Witness ==
    pc = "done" /\ dry_run /\ pre.exists /\ removed > 0 /\ new_entries /= <<>>

\* The last entry line naming domain d after its address, if any.
NamingLines(text, d) ==
    {i \in 1..Len(SplitLines(text)) :
        LET line == SplitLines(text)[i]
        IN  /\ ~IsCommentOrBlank(line)
            /\ \E j \in 1..Len(line) :
                  TokenAt(line, d, j) /\ \E h \in Inked(line) : h < j}

LastNaming(text, d) ==
    CHOOSE i \in NamingLines(text, d) : \A j \in NamingLines(text, d) : j <= i

\* Domain number k is mapped and its mapped address is among the IPv4
\* addresses just resolved for it.
Matches(k) ==
    LET d == STEAM_DOMAINS[k]
        addr == Split(SplitLines(hosts.text)[LastNaming(hosts.text, d)])[1]
    IN  /\ NamingLines(hosts.text, d) /= {}
        /\ addr \in Range(resolved[k])
        /\ ":" \notin Range(addr)

\* C5: the verifier exits 1 exactly when the hosts file is missing; on an
\* existing file it exits 0 if every managed domain is mapped (by the last
\* entry line naming it) to an address among those freshly resolved for it,
\* and 2 otherwise.
C5_VerifierExit ==
    vpc = "done" =>
        /\ vexit = 1 <=> ~hosts.exists
        /\ hosts.exists => vexit = IF \A k \in 1..NDomains : Matches(k) THEN 0 ELSE 2

\* C5 witness: exit 0 on a file where a later line overrides an earlier one.
C5_Witness ==
    /\ vpc = "done" /\ vexit = 0
    /\ \E k \in 1..NDomains :
          Cardinality(NamingLines(hosts.text, STEAM_DOMAINS[k])) = 2

\* C6: what resolve_domain returns holds no duplicate and no address with
\* a colon.
C6_NoDuplicateNoColon ==
    /\ \A i \in 1..Len(ips) : ":" \notin Range(ips[i])
    /\ \A i, j \in 1..Len(ips) : i /= j => ips[i] /= ips[j]

\* C7: a domain for which every strategy yielded nothing gets exactly one
\* warning and no entry line; no entry line has an empty address; the run
\* goes on through the remaining domains and exits 0.
C7_UnresolvedDomainSkipped ==
    /\ \A k \in failed :
          /\ Count(warnings, LAMBDA w : w = STEAM_DOMAINS[k]) = 1
          /\ \A i \in 1..Len(new_entries) : EntryDomain(new_entries[i]) /= STEAM_DOMAINS[k]
          /\ writes = 1 =>
                \A i \in 1..Len(ManagedBlock) : EntryDomain(ManagedBlock[i]) /= STEAM_DOMAINS[k]
    /\ \A i \in 1..Len(new_entries) : EntryAddress(new_entries[i]) /= <<>>
    /\ (pc = "done" /\ pre.exists) => exit = 0 /\ di = NDomains + 1

\* C7 witness: the first domain failed everywhere, the second was written.
C7_Witness ==
    /\ pc = "done" /\ writes = 1 /\ failed = {1}
    /\ Len(trace) >= 1 /\ ManagedBlock /= <<>>

\* C8: the filter never removes a comment line or a blank line and never
\* counts one as removed.
C8_CommentsAndBlanksKept ==
    (pre.exists /\ pc \in {"filter", "resolve", "done"}) =>
        LET seen == SubSeq(lines, 1, li - 1)
        IN  /\ SelectSeq(filtered, IsCommentOrBlank) = SelectSeq(seen, IsCommentOrBlank)
            /\ removed = Len(seen) - Len(filtered)

\* C8 witness: a comment naming a managed domain was kept while an entry
\* line was removed.
C8_Witness ==
    /\ pc = "resolve" /\ removed = 1
    /\ <<"#", " ", "s">> \in Range(filtered)

\* C9: every entry line none of whose tokens is a managed domain is kept, in
\* order, and is written unchanged ahead of the header marker.
C9_UnmanagedLinesKept ==
    FilterOver =>
        /\ SelectSeq(filtered, IsUnmanagedEntry) = SelectSeq(lines, IsUnmanagedEntry)
        /\ writes = 1 =>
              SelectSeq(AheadOfHeader, IsUnmanagedEntry) = SelectSeq(lines, IsUnmanagedEntry)

\* C10: resolve_domain asks the servers in order, dig first and nslookup
\* only after an empty dig on the same server; nothing follows an attempt
\* that yielded; the system resolver comes only after every server yielded
\* nothing, and once; no tool is asked twice for a server; a missing tool
\* or a failed call counts as empty.
C10_ResolveOrder ==
    /\ \A i \in 1..Len(trace) :
          LET a == trace[i]
          IN  /\ a.kind \in {"missing", "error"} => a.n = 0
              /\ i = 1 =>
                    IF dns_servers = <<>> THEN a.tool = "system"
                    ELSE a.tool = "dig" /\ a.server = 1
              /\ i > 1 =>
                    LET b == trace[i - 1]
                    IN  /\ b.n = 0
                        /\ b.tool /= "system"
                        /\ b.tool = "dig" => a.tool = "nslookup" /\ a.server = b.server
                        /\ b.tool = "nslookup" =>
                              IF b.server < Len(dns_servers)
                                THEN a.tool = "dig" /\ a.server = b.server + 1
                                ELSE a.tool = "system"
    /\ \A i, j \in 1..Len(trace) :
          (i /= j) => <<trace[i].tool, trace[i].server>> /= <<trace[j].tool, trace[j].server>>
    /\ (stage = "idle" /\ trace /= <<>>) =>
          /\ trace[Len(trace)].n > 0 \/ trace[Len(trace)].tool = "system"
          /\ (ips = <<>>) <=> (\A i \in 1..Len(trace) : trace[i].n = 0)

\* C10 witness: both servers gave nothing to either tool and the system
\* resolver was asked.
C10_Witness ==
    /\ stage = "idle" /\ Len(trace) = 5
    /\ trace[5].tool = "system" /\ trace[5].n > 0

====
